---- MODULE Spec2Model ----
(***************************************************************************)
(* A model of gen_video.py: gen_interp_video (the latent-walk renderer),   *)
(* circularloop (the precomputed circular walk) and layout_grid (the grid  *)
(* compositor).                                                            *)
(*                                                                         *)
(* The network G, scipy's interp1d and the imageio writer are external     *)
(* collaborators.  A latent vector is denoted by the seed it was sampled   *)
(* from; the affine input stage of the network is a scalar map             *)
(* x |-> weight*x + bias; the writer is the sequence of frames appended.   *)
(***************************************************************************)
EXTENDS Integers, Sequences, FiniteSets, Bags, TLC

VARIABLES
    args,          \* the arguments of gen_interp_video, fixed for the run
    G,             \* the network's affine input stage (mutable parameters)
    pc,            \* position of gen_interp_video
    err,           \* the exception that ended the run, or NoError
    grid_w,        \* local grid_w  (lines 141-146)
    grid_h,        \* local grid_h
    num_keyframes, \* local num_keyframes (argument, reassigned at line 158)
    all_seeds,     \* local all_seeds (lines 160-166)
    ws,            \* local ws, flat; reshaped [grid_h][grid_w][num_keyframes]
    grid,          \* local grid: one interpolation path per cell, row-major
    frame_idx,     \* the render loop's counter
    video_out,     \* the writer: "none", "open" or "closed"
    frames,        \* the frames appended to the writer, in order
    synthCalls,    \* number of G.synthesis evaluations so far
    mutations,     \* number of times G's parameters were written
    lg             \* a call of layout_grid: its arguments and its result

vars == <<args, G, pc, err, grid_w, grid_h, num_keyframes, all_seeds, ws,
          grid, frame_idx, video_out, frames, synthCalls, mutations, lg>>

\* Python's None for an optional integer (arguments are >= 0 here)
None == -1

NoError == "none"

\* ---------------------------------------------------------------- bounds
MaxSeeds == 3
MaxGrid == 2
MaxKeyframes == 4
MaxWFrames == 2
MaxWraps == 1
MaxChannels == 2
MaxSide == 2

\* ------------------------------------------------------- input domains
\* --seeds=a-b (parse_range): the list a, a+1, ..., a+n-1
SeedRange(a, n) == [i \in 1..n |-> a + i - 1]

SeedLists == {SeedRange(3, n) : n \in 1..MaxSeeds}

ShuffleSeeds == {None, 1}

\* the loaded network: without an affine input stage (hasattr fails), or
\* with one whose parameters and mean latent are the given scalars
Networks ==
    {[hasInput |-> FALSE, weight |-> 0, bias |-> 0, w_avg |-> 0]}
    \cup {[hasInput |-> TRUE, weight |-> 2, bias |-> 1, w_avg |-> 1]}

ArgSets ==
    [G : Networks,
     seeds : SeedLists,
     interpolation : {"lerp", "circularloop"},
     shuffle_seed : ShuffleSeeds,
     w_frames : 0..MaxWFrames,
     grid_dims : (0..MaxGrid) \X (0..MaxGrid),
     num_keyframes : {None} \cup (0..MaxKeyframes),
     wraps : 0..MaxWraps,
     stabilize_video : BOOLEAN]


\* ------------------------------------------------------------- helpers
Interpolation == args.interpolation
NumSeeds == Len(args.seeds)

\* lines 141-146: the grid is taken from grid_dims in lerp mode only
GridW(a) == IF a.interpolation = "lerp" THEN a.grid_dims[1] ELSE 1
GridH(a) == IF a.interpolation = "lerp" THEN a.grid_dims[2] ELSE 1

\* FullyConnectedLayer.forward of G.synthesis.input.affine, on scalars
Affine(g, x) == g.weight * x + g.bias

\* mutant: the stabilize_video flag is not consulted
StabilizeIgnoresFlag(a, g) == g.hasInput

\* lines 148, 150: stabilize_video and hasattr(G.synthesis, 'input')
StabilizeApplies(a, g) == a.stabilize_video /\ g.hasInput

\* lines 151-153: shift = affine(w_avg); bias.data.add_(shift); weight.data.zero_()
Stabilized(g) ==
    LET shift == Affine(g, g.w_avg)
    IN  [g EXCEPT !.bias = g.bias + shift, !.weight = 0]

\* mutant: the divisibility check is missing
SeedsDivisibleUnchecked(n, cells) == TRUE

\* line 156: len(seeds) % (grid_w*grid_h) != 0 raises
SeedsDivisible(n, cells) == n % cells = 0

\* mutant: the index is clamped to the last seed instead of cycling
ExpandIndexClamped(idx, n) == IF idx < n THEN idx ELSE n - 1

\* line 162: all_seeds[idx] = seeds[idx % len(seeds)], idx 0-based
ExpandIndex(idx, n) == idx % n

\* lines 160-162
ExpandSeeds(seeds, len) ==
    [i \in 1..len |-> seeds[ExpandIndex(i - 1, Len(seeds)) + 1]]

\* np.random.RandomState(seed): the generator's state is a function of the
\* seed alone; the Mersenne twister is stood for by a small congruential one
RngSeed(seed) == (seed * 7 + 1) % 16
RngNext(s) == (s * 5 + 3) % 16

Swap(x, i, j) == [x EXCEPT ![i] = x[j], ![j] = x[i]]

\* RandomState.shuffle on a 1-d array: for i in reversed(range(1, n)):
\* j = random_interval(i); x[i], x[j] = x[j], x[i]      (i, j 0-based)
RECURSIVE ShuffleFrom(_, _, _)
ShuffleFrom(x, i, s) ==
    IF i < 1 THEN x
    ELSE LET s1 == RngNext(s)
             j  == s1 % (i + 1)
         IN  ShuffleFrom(Swap(x, i + 1, j + 1), i - 1, s1)

\* lines 164-166
Shuffled(x, shuffle_seed) ==
    IF shuffle_seed = None THEN x
    ELSE ShuffleFrom(x, Len(x) - 1, RngSeed(shuffle_seed))

\* line 171: ws.reshape(grid_h, grid_w, num_keyframes, ...): ws[yi][xi][k]
\* (yi, xi, k 0-based) is entry (yi*grid_w + xi)*num_keyframes + k of flat ws
WsIndex(yi, xi, k, gw, nk) == (yi * gw + xi) * nk + k

CellWs(w, yi, xi, gw, nk) ==
    [k \in 1..nk |-> w[WsIndex(yi, xi, k - 1, gw, nk) + 1]]

\* np.arange(a, b)
Arange(a, b) == IF b > a THEN [i \in 1..(b - a) |-> a + i - 1] ELSE <<>>

\* mutant: the axis starts one position late
AxisStartShifted(nk, wraps) == -nk * wraps + 1

\* line 179
AxisStart(nk, wraps) == -nk * wraps
AxisStop(nk, wraps) == nk * (wraps + 1)

\* line 180: np.tile(v, [wraps*2+1, 1, 1]) repeats v along axis 0
TileReps(wraps) == wraps * 2 + 1
Tile(v, reps) == [j \in 1..(Len(v) * reps) |-> v[((j - 1) % Len(v)) + 1]]

\* scipy.interpolate.interp1d(x, y, kind='cubic'): needs at least 4 points
InterpOrderPoints == 4

\* lines 179-183: the path of cell (yi, xi)
SplinePath(w, yi, xi, gw, nk, wraps) ==
    [x |-> Arange(AxisStart(nk, wraps), AxisStop(nk, wraps)),
     y |-> Tile(CellWs(w, yi, xi, gw, nk), TileReps(wraps))]

\* interp(t) for t = num/den: interp1d raises ValueError outside
\* [x[0], x[-1]] (bounds_error), and passes through its knots
InDomain(path, num, den) ==
    /\ Len(path.x) > 0
    /\ path.x[1] * den <= num
    /\ num <= path.x[Len(path.x)] * den

InterpAt(path, num, den) ==
    IF num % den = 0
    THEN [knot |-> TRUE, w |-> path.y[(num \div den) - path.x[1] + 1]]
    ELSE [knot |-> FALSE, w |-> <<num, den>>]

\* lines 66-71 in IEEE double precision: the nf for which the sum of nf
\* copies of fl(1.0/nf) is still below 1.0, so that the loop runs once more
\* (computed for nf = 1..79)
RoundsShort ==
    {6, 7, 10, 13, 14, 15, 19, 22, 23, 24, 26, 27, 28, 29, 30, 31, 33, 37,
     38, 44, 46, 53, 54, 59, 62, 63, 65, 66, 68, 69, 70, 71, 72, 74, 75,
     78, 79}

\* line 69: current_pos < 1.0 after i additions of step = 1.0/nf
PosBelowOne(i, nf) == i < nf \/ (i = nf /\ nf \in RoundsShort)

\* lines 66-72: the sample taken after i additions is at position ~ i/nf
RECURSIVE CircularLoopFrom(_, _, _)
CircularLoopFrom(zs, i, nf) ==
    IF PosBelowOne(i, nf)
    THEN CircularLoopFrom(Append(zs, [num |-> i, den |-> nf]), i + 1, nf)
    ELSE zs

circularloop(nf) == CircularLoopFrom(<<>>, 0, nf)

\* mutant: the loops are nested the other way round (xi outer, yi inner)
CellOrderColumnMajor(gw, gh) ==
    [c \in 1..(gw * gh) |-> <<(c - 1) % gh, (c - 1) \div gh>>]

\* lines 195-196: for yi in range(grid_h): for xi in range(grid_w)
CellOrder(gw, gh) ==
    [c \in 1..(gw * gh) |-> <<(c - 1) \div gw, (c - 1) % gw>>]

\* line 193: range(num_keyframes * w_frames)
TotalFrames(nk, w_frames) == nk * w_frames

NextFrameIdx(i) == i + 1

\* line 35: assert batch_size == grid_w * grid_h
BatchMatches(batch, gw, gh) == batch = gw * gh

\* --------------------------------------------------------- layout_grid
\* A tensor is [shape, data]: data holds the elements in row-major order of
\* shape.  Indices are 0-based, as in the source.
RECURSIVE Numel(_)
Numel(shape) == IF shape = <<>> THEN 1 ELSE Head(shape) * Numel(Tail(shape))

\* the row-major stride of dimension d (1-based position in shape)
Stride(shape, d) == Numel(SubSeq(shape, d + 1, Len(shape)))

Unravel(f, shape) ==
    [d \in 1..Len(shape) |-> (f \div Stride(shape, d)) % shape[d]]

RECURSIVE RavelFrom(_, _, _)
RavelFrom(m, shape, d) ==
    IF d > Len(shape) THEN 0
    ELSE m[d] * Stride(shape, d) + RavelFrom(m, shape, d + 1)

Ravel(m, shape) == RavelFrom(m, shape, 1)

\* t[m] for a multi-index m
Elem(t, m) == t.data[Ravel(m, t.shape) + 1]

\* torch.Tensor.reshape: same elements in the same logical order
Reshape(t, shape) == [shape |-> shape, data |-> t.data]

\* torch.Tensor.permute(perm): dimension i of the result is dimension
\* perm[i] of t, so result[m] = t[o] with o[perm[i]] = m[i]
Permute(t, perm) ==
    LET n     == Len(perm)
        shape == [i \in 1..n |-> t.shape[perm[i] + 1]]
        Src(m) == [d \in 1..n |-> m[CHOOSE i \in 1..n : perm[i] + 1 = d]]
    IN  [shape |-> shape,
         data  |-> [f \in 1..Numel(shape) |-> Elem(t, Src(Unravel(f - 1, shape)))]]

Clamp(v, lo, hi) == IF v < lo THEN lo ELSE IF v > hi THEN hi ELSE v

\* line 37: (img * 127.5 + 128).clamp(0, 255).to(torch.uint8), on a pixel
\* given in quarters (v stands for v/4): (255 v + 1024)/8, clamped, truncated
ScaleClip(v) == Clamp(255 * v + 1024, 0, 8 * 255) \div 8

ToUint8(t) == [shape |-> t.shape, data |-> [i \in 1..Len(t.data) |-> ScaleClip(t.data[i])]]

\* mutant: the grid's two dimensions are exchanged in the permutation
LayoutPermSwapped == <<2, 1, 3, 0, 4>>

\* line 39: img.permute(2, 0, 3, 1, 4)
LayoutPerm == <<2, 0, 3, 1, 4>>

\* line 42: img.permute(1, 2, 0)
HwcPerm == <<1, 2, 0>>

\* lines 33-34
LayoutGridW(batch_size, gw, gh) == IF gw = None THEN batch_size \div gh ELSE gw

\* lines 31-45; the result is [ok, out] or [ok, err]
layout_grid(img, gw_arg, gh, float_to_uint8, chw_to_hwc) ==
    LET batch_size == img.shape[1]
        channels   == img.shape[2]
        img_h      == img.shape[3]
        img_w      == img.shape[4]
    IN  IF gw_arg = None /\ gh = 0
        THEN [ok |-> FALSE, err |-> "ZeroDivisionError"]
        ELSE LET gw == LayoutGridW(batch_size, gw_arg, gh)
                 t1 == IF float_to_uint8 THEN ToUint8(img) ELSE img
                 t2 == Reshape(t1, <<gh, gw, channels, img_h, img_w>>)
                 t3 == Permute(t2, LayoutPerm)
                 t4 == Reshape(t3, <<channels, gh * img_h, gw * img_w>>)
                 t5 == IF chw_to_hwc THEN Permute(t4, HwcPerm) ELSE t4
             IN  IF ~BatchMatches(batch_size, gw, gh)
                 THEN [ok |-> FALSE, err |-> "AssertionError"]
                 ELSE [ok |-> TRUE, out |-> t5]

\* ------------------------------------------------- gen_interp_video
Raise(kind) ==
    /\ pc' = "error"
    /\ err' = kind

\* the state at the call of gen_interp_video, nothing executed yet
Init ==
    /\ args \in ArgSets
    /\ G = args.G
    /\ pc = "setup"
    /\ err = NoError
    /\ grid_w = 0
    /\ grid_h = 0
    /\ num_keyframes = args.num_keyframes
    /\ all_seeds = <<>>
    /\ ws = <<>>
    /\ grid = <<>>
    /\ frame_idx = 0
    /\ video_out = "none"
    /\ frames = <<>>
    /\ synthCalls = 0
    /\ mutations = 0
    /\ lg = <<>>

\* lines 141-153: choose the grid, then the optional stabilization
Setup ==
    /\ pc = "setup"
    /\ grid_w' = GridW(args)
    /\ grid_h' = GridH(args)
    /\ IF StabilizeApplies(args, G)
       THEN /\ G' = Stabilized(G)
            /\ mutations' = mutations + 1
       ELSE UNCHANGED <<G, mutations>>
    /\ pc' = "keyframes"
    /\ UNCHANGED <<args, err, num_keyframes, all_seeds, ws, grid, frame_idx,
                   video_out, frames, synthCalls, lg>>

\* lines 155-158
KeyframeCount ==
    /\ pc = "keyframes"
    /\ IF num_keyframes = None
       THEN IF grid_w * grid_h = 0
            THEN Raise("ZeroDivisionError") /\ UNCHANGED num_keyframes
            ELSE IF ~SeedsDivisible(NumSeeds, grid_w * grid_h)
            THEN Raise("ValueError") /\ UNCHANGED num_keyframes
            ELSE /\ num_keyframes' = NumSeeds \div (grid_w * grid_h)
                 /\ pc' = "expand"
                 /\ UNCHANGED err
       ELSE /\ pc' = "expand"
            /\ UNCHANGED <<num_keyframes, err>>
    /\ UNCHANGED <<args, G, grid_w, grid_h, all_seeds, ws, grid, frame_idx,
                   video_out, frames, synthCalls, mutations, lg>>

\* lines 160-166
Expand ==
    /\ pc = "expand"
    /\ all_seeds' = Shuffled(ExpandSeeds(args.seeds, num_keyframes * grid_h * grid_w),
                             args.shuffle_seed)
    /\ pc' = "latents"
    /\ UNCHANGED <<args, G, err, grid_w, grid_h, num_keyframes, ws, grid,
                   frame_idx, video_out, frames, synthCalls, mutations, lg>>

\* lines 168-171: np.stack of no arrays raises; G.mapping; the warm-up
\* G.synthesis(ws[:1]); the reshape keeps the flat order
MapLatents ==
    /\ pc = "latents"
    /\ IF Len(all_seeds) = 0
       THEN Raise("ValueError") /\ UNCHANGED <<ws, synthCalls>>
       ELSE /\ ws' = all_seeds
            /\ synthCalls' = synthCalls + 1
            /\ pc' = "paths"
            /\ UNCHANGED err
    /\ UNCHANGED <<args, G, grid_w, grid_h, num_keyframes, all_seeds, grid,
                   frame_idx, video_out, frames, mutations, lg>>

\* lines 175-188
BuildPaths ==
    /\ pc = "paths"
    /\ IF Interpolation = "lerp"
       THEN IF num_keyframes * TileReps(args.wraps) < InterpOrderPoints
            THEN Raise("ValueError") /\ UNCHANGED grid
            ELSE /\ grid' = [c \in 1..(grid_w * grid_h) |->
                               SplinePath(ws, CellOrder(grid_w, grid_h)[c][1],
                                          CellOrder(grid_w, grid_h)[c][2],
                                          grid_w, num_keyframes, args.wraps)]
                 /\ pc' = "open"
                 /\ UNCHANGED err
       ELSE IF NumSeeds < 3
            THEN Raise("IndexError") /\ UNCHANGED grid
            ELSE IF args.w_frames * NumSeeds = 0
            THEN Raise("ZeroDivisionError") /\ UNCHANGED grid
            ELSE /\ grid' = <<circularloop(args.w_frames * NumSeeds)>>
                 /\ pc' = "open"
                 /\ UNCHANGED err
    /\ UNCHANGED <<args, G, grid_w, grid_h, num_keyframes, all_seeds, ws,
                   frame_idx, video_out, frames, synthCalls, mutations, lg>>

\* line 192
OpenSink ==
    /\ pc = "open"
    /\ video_out' = "open"
    /\ pc' = "render"
    /\ UNCHANGED <<args, G, err, grid_w, grid_h, num_keyframes, all_seeds, ws,
                   grid, frame_idx, frames, synthCalls, mutations, lg>>

\* line 192: imageio.get_writer cannot open the output
OpenFails ==
    /\ pc = "open"
    /\ Raise("IOError")
    /\ UNCHANGED <<args, G, grid_w, grid_h, num_keyframes, all_seeds, ws,
                   grid, frame_idx, video_out, frames, synthCalls, mutations, lg>>

\* lines 197-204: the latent of cell c at the current frame exists
LookupOk(c) ==
    IF Interpolation = "lerp"
    THEN InDomain(grid[c], frame_idx, args.w_frames)
    ELSE frame_idx < Len(grid[c])

Lookup(c) ==
    IF Interpolation = "lerp"
    THEN InterpAt(grid[c], frame_idx, args.w_frames)
    ELSE [knot |-> FALSE, w |-> grid[c][frame_idx + 1]]

\* lines 193-206: one iteration of the render loop
RenderFrame ==
    /\ pc = "render"
    /\ frame_idx < TotalFrames(num_keyframes, args.w_frames)
    /\ LET cells == CellOrder(grid_w, grid_h)
           imgs  == [c \in 1..Len(cells) |->
                       [yi |-> cells[c][1], xi |-> cells[c][2], w |-> Lookup(c)]]
       IN  IF \E c \in 1..Len(cells) : ~LookupOk(c)
           THEN /\ Raise(IF Interpolation = "lerp" THEN "ValueError" ELSE "IndexError")
                /\ UNCHANGED <<frame_idx, frames, synthCalls>>
           ELSE IF ~BatchMatches(Len(imgs), grid_w, grid_h)
           THEN /\ Raise("AssertionError")
                /\ synthCalls' = synthCalls + Len(imgs)
                /\ UNCHANGED <<frame_idx, frames>>
           ELSE /\ frames' = Append(frames, [idx |-> frame_idx, imgs |-> imgs])
                /\ synthCalls' = synthCalls + Len(imgs)
                /\ frame_idx' = NextFrameIdx(frame_idx)
                /\ UNCHANGED <<pc, err>>
    /\ UNCHANGED <<args, G, grid_w, grid_h, num_keyframes, all_seeds, ws,
                   grid, video_out, mutations, lg>>

\* lines 200, 204, 206: G.synthesis or append_data raises inside the loop
RenderFails ==
    /\ pc = "render"
    /\ frame_idx < TotalFrames(num_keyframes, args.w_frames)
    /\ Raise("RuntimeError")
    /\ UNCHANGED <<args, G, grid_w, grid_h, num_keyframes, all_seeds, ws,
                   grid, frame_idx, video_out, frames, synthCalls, mutations, lg>>

\* line 207, reached when the loop is exhausted
CloseSink ==
    /\ pc = "render"
    /\ frame_idx >= TotalFrames(num_keyframes, args.w_frames)
    /\ video_out' = "closed"
    /\ pc' = "done"
    /\ UNCHANGED <<args, G, err, grid_w, grid_h, num_keyframes, all_seeds, ws,
                   grid, frame_idx, frames, synthCalls, mutations, lg>>

Next ==
    \/ Setup
    \/ KeyframeCount
    \/ Expand
    \/ MapLatents
    \/ BuildPaths
    \/ OpenSink
    \/ OpenFails
    \/ RenderFrame
    \/ RenderFails
    \/ CloseSink

Spec == Init /\ [][Next]_vars

\* ------------------------------------------- layout_grid as a function
\* pixel i of a test batch, in quarters: values on both sides of [-1, 1]
PixelAt(i) == ((i * 5) % 13) - 6

Image(b, ch, h, w) ==
    [shape |-> <<b, ch, h, w>>,
     data  |-> [i \in 1..(b * ch * h * w) |-> PixelAt(i - 1)]]

Images ==
    {Image(b, ch, h, w) : b \in 1..(MaxGrid * MaxGrid), ch \in 1..MaxChannels,
                          h \in 1..MaxSide, w \in 1..MaxSide}

LgCalls ==
    [pc : {"call"},
     img : Images,
     grid_w : {None} \cup (0..MaxGrid),
     grid_h : 0..MaxGrid,
     float_to_uint8 : BOOLEAN,
     chw_to_hwc : BOOLEAN,
     result : {<<>>}]

LgResult == layout_grid(lg.img, lg.grid_w, lg.grid_h, lg.float_to_uint8, lg.chw_to_hwc)

Pipeline == <<args, G, pc, err, grid_w, grid_h, num_keyframes, all_seeds, ws,
              grid, frame_idx, video_out, frames, synthCalls, mutations>>

InitGrid ==
    /\ args = CHOOSE a \in ArgSets : TRUE
    /\ G = args.G
    /\ pc = "idle"
    /\ err = NoError
    /\ grid_w = 0
    /\ grid_h = 0
    /\ num_keyframes = None
    /\ all_seeds = <<>>
    /\ ws = <<>>
    /\ grid = <<>>
    /\ frame_idx = 0
    /\ video_out = "none"
    /\ frames = <<>>
    /\ synthCalls = 0
    /\ mutations = 0
    /\ lg \in LgCalls

LayoutGridReturns ==
    /\ lg.pc = "call"
    /\ LgResult.ok
    /\ lg' = [lg EXCEPT !.pc = "returned", !.result = LgResult]
    /\ UNCHANGED Pipeline

LayoutGridRaises ==
    /\ lg.pc = "call"
    /\ ~LgResult.ok
    /\ lg' = [lg EXCEPT !.pc = "raised", !.result = LgResult]
    /\ UNCHANGED Pipeline

NextGrid == LayoutGridReturns \/ LayoutGridRaises

SpecGrid == InitGrid /\ [][NextGrid]_vars

\* ================================================================ claims
RunEnded == pc \in {"done", "error"}
PathsBuilt == grid # <<>>

\* the keyframe count gen_interp_video is documented to use in lerp mode
DocumentedK ==
    IF args.num_keyframes # None THEN args.num_keyframes
    ELSE NumSeeds \div (args.grid_dims[1] * args.grid_dims[2])

\* C1: a run that completes has handed K * w_frames frames to the writer in
\* lerp mode and len(seeds) * w_frames frames in circularloop mode.
C1_FrameCount ==
    pc = "done" =>
        Len(frames) = IF Interpolation = "lerp"
                      THEN DocumentedK * args.w_frames
                      ELSE NumSeeds * args.w_frames

\* C2: no run ends, normally or by an exception, with the writer opened and
\* not closed.
C2_SinkClosedAtEnd == RunEnded => video_out # "open"

\* C3: in lerp mode without an explicit keyframe count (grid of at least one
\* cell), len(seeds) not divisible by W*H ends the run with ValueError before
\* the writer is opened and before anything is rendered; otherwise
\* num_keyframes = len(seeds) / (W*H).
C3_Divisibility ==
    LET cells == args.grid_dims[1] * args.grid_dims[2]
    IN  (Interpolation = "lerp" /\ args.num_keyframes = None /\ cells > 0) =>
            IF NumSeeds % cells # 0
            THEN \/ pc \in {"setup", "keyframes"}
                 \/ /\ pc = "error"
                    /\ err = "ValueError"
                    /\ video_out = "none"
                    /\ frames = <<>>
                    /\ synthCalls = 0
                    /\ all_seeds = <<>>
            ELSE pc \notin {"setup", "keyframes"} =>
                    /\ num_keyframes * cells = NumSeeds
                    /\ ~(pc = "error" /\ all_seeds = <<>>)

C3_Witness ==
    /\ Interpolation = "lerp"
    /\ args.num_keyframes = None
    /\ args.grid_dims = <<2, 2>>
    /\ NumSeeds = 3
    /\ pc = "error"
    /\ err = "ValueError"

\* C4: the i-th frame appended is frame index i-1, and holds exactly W*H cell
\* images, gathered row by row (yi outer, xi inner), each cell once.
C4_FrameOrder ==
    /\ pc = "render" => frame_idx = Len(frames)
    /\ \A i \in 1..Len(frames) :
          LET im == frames[i].imgs
          IN  /\ frames[i].idx = i - 1
              /\ Len(im) = grid_w * grid_h
              /\ {<<im[c].yi, im[c].xi>> : c \in 1..Len(im)}
                     = (0..(grid_h - 1)) \X (0..(grid_w - 1))
              /\ \A c \in 1..(Len(im) - 1) :
                     \/ im[c].yi < im[c + 1].yi
                     \/ im[c].yi = im[c + 1].yi /\ im[c].xi < im[c + 1].xi

C4_Witness ==
    /\ Len(frames) >= 3
    /\ grid_w = 2
    /\ grid_h = 2

\* C5: G's parameters are written at most once, only with stabilize_video
\* set and an affine input stage present, and never once G.synthesis has
\* been evaluated or the writer has been opened.
C5_StabilizeOnce ==
    /\ [](/\ mutations <= 1
          /\ mutations = 1 => args.stabilize_video /\ args.G.hasInput
          /\ mutations = 0 => G = args.G)
    /\ [][(synthCalls > 0 \/ video_out # "none" \/ frames # <<>>)
              => (G' = G /\ mutations' = mutations)]_vars

C5_Witness ==
    /\ mutations = 1
    /\ G # args.G
    /\ Len(frames) >= 2
    /\ pc = "done"

\* C6: with the default conversions, layout_grid of a batch of W*H images
\* [ch,h,w] is [H*h, W*w, ch] with out[yi*h+r][xi*w+c][k] the scaled and
\* clipped pixel [k][r][c] of image yi*W+xi; any other batch size is rejected.
C6_LayoutGrid ==
    (lg.pc # "call" /\ lg.float_to_uint8 /\ lg.chw_to_hwc /\ lg.grid_w # None) =>
        LET W  == lg.grid_w
            H  == lg.grid_h
            b  == lg.img.shape[1]
            ch == lg.img.shape[2]
            h  == lg.img.shape[3]
            w  == lg.img.shape[4]
        IN  IF b # W * H
            THEN lg.pc = "raised"
            ELSE /\ lg.pc = "returned"
                 /\ lg.result.out.shape = <<H * h, W * w, ch>>
                 /\ Len(lg.result.out.data) = b * ch * h * w
                 /\ \A yi \in 0..(H - 1), xi \in 0..(W - 1), k \in 0..(ch - 1),
                       r \in 0..(h - 1), c \in 0..(w - 1) :
                        lg.result.out.data[((yi * h + r) * (W * w) + (xi * w + c)) * ch + k + 1]
                          = ScaleClip(lg.img.data[(((yi * W + xi) * ch + k) * h + r) * w + c + 1])

C6_Witness ==
    /\ lg.pc = "returned"
    /\ lg.float_to_uint8
    /\ lg.chw_to_hwc
    /\ lg.grid_w = 2
    /\ lg.grid_h = 2
    /\ lg.img.shape = <<4, 2, 2, 2>>

\* C7: with wraps >= 1 every spline path has the axis -K*wraps .. K*(wraps+1)-1,
\* its value at axis position x is keyframe (x mod K) of its cell, its values
\* at t = 0 and t = K agree, and every t = frame_idx / w_frames of the render
\* loop lies inside the axis.
C7_CyclicPath ==
    (Interpolation = "lerp" /\ args.wraps >= 1 /\ PathsBuilt) =>
        LET K == num_keyframes
        IN  \A c \in 1..Len(grid) :
              LET p == grid[c]
              IN  /\ Len(p.x) = K * (2 * args.wraps + 1)
                  /\ Len(p.y) = Len(p.x)
                  /\ \A j \in 1..Len(p.x) :
                        /\ p.x[j] = -K * args.wraps + j - 1
                        /\ p.y[j] = ws[(c - 1) * K + (p.x[j] % K) + 1]
                  /\ InDomain(p, 0, 1)
                  /\ InDomain(p, K, 1)
                  /\ InterpAt(p, 0, 1) = InterpAt(p, K, 1)
                  /\ \A f \in 0..(K * args.w_frames - 1) :
                        InDomain(p, f, args.w_frames)
                  /\ ~(pc = "error" /\ err = "ValueError")

C7_Witness ==
    /\ Interpolation = "lerp"
    /\ args.wraps = 1
    /\ num_keyframes = 3
    /\ grid_w * grid_h = 1
    /\ args.w_frames = 2
    /\ pc = "done"
    /\ Len(frames) = 6

Occurrences(a, v) == Cardinality({j \in 1..Len(a) : a[j] = v})

SameElements(a, b) ==
    /\ Len(a) = Len(b)
    /\ \A v \in {a[j] : j \in 1..Len(a)} \cup {b[j] : j \in 1..Len(b)} :
          Occurrences(a, v) = Occurrences(b, v)

\* C8: all_seeds has length K*W*H; without a shuffle its entry i is
\* seeds[i mod N]; with one it is that array rearranged by a permutation of
\* positions fixed by the shuffle seed and the length; keyframe k of cell
\* (yi, xi) is the entry (yi*W + xi)*K + k.
C8_Expansion ==
    pc \in {"latents", "paths", "open", "render", "done"} =>
        LET K    == num_keyframes
            n    == K * grid_w * grid_h
            pre  == [i \in 1..n |-> args.seeds[((i - 1) % NumSeeds) + 1]]
            perm == Shuffled([i \in 1..n |-> i], args.shuffle_seed)
        IN  /\ Len(all_seeds) = n
            /\ args.shuffle_seed = None => all_seeds = pre
            /\ SameElements(all_seeds, pre)
            /\ all_seeds = [i \in 1..n |-> pre[perm[i]]]
            /\ (Interpolation = "lerp" /\ PathsBuilt) =>
                  \A yi \in 0..(grid_h - 1), xi \in 0..(grid_w - 1), k \in 0..(K - 1) :
                     InterpAt(grid[yi * grid_w + xi + 1], k, 1).w
                        = all_seeds[(yi * grid_w + xi) * K + k + 1]

C8_Witness ==
    /\ pc = "done"
    /\ Interpolation = "lerp"
    /\ args.shuffle_seed # None
    /\ NumSeeds = 3
    /\ grid_w = 2
    /\ grid_h = 2
    /\ num_keyframes = 2
    /\ all_seeds # ExpandSeeds(args.seeds, 8)

\* C9: after the stabilization pre-pass the stage's bias is the affine
\* output on the mean latent under the parameters G was loaded with, its
\* weight is zero, and its output is that same value for every latent.
C9_BiasOverwritten ==
    mutations = 1 =>
        /\ G.weight = 0
        /\ G.bias = Affine(args.G, args.G.w_avg)
        /\ \A x \in -2..2 : Affine(G, x) = Affine(args.G, args.G.w_avg)

\* C10: in circularloop mode the grid is 1x1 and, once the walk is built,
\* it holds exactly one sample per output frame, sample i at position
\* i / total_frames < 1, and the render loop never indexes past it.
C10_OneSamplePerFrame ==
    (Interpolation = "circularloop" /\ PathsBuilt) =>
        LET total == TotalFrames(num_keyframes, args.w_frames)
        IN  /\ grid_w = 1 /\ grid_h = 1
            /\ Len(grid[1]) = total
            /\ \A i \in 1..Len(grid[1]) :
                  /\ grid[1][i] = [num |-> i - 1, den |-> total]
                  /\ grid[1][i].num < grid[1][i].den
            /\ ~(pc = "error" /\ err = "IndexError")
====
